---- MODULE Spec2Model ----
(***************************************************************************)
(* State-machine model of streamlit_app.py: one browser session of the     *)
(* document processor (login, bulk processing job, chat turns).            *)
(*                                                                         *)
(* A script run is executed from top to bottom for every user event; the   *)
(* model follows one run with a program counter `pc` and lets the next     *)
(* user event arrive only when the run has ended (pc = "idle").  Each      *)
(* iteration of a polling loop is one step, so that the number of status   *)
(* calls and the intermediate session states are observable.               *)
(*                                                                         *)
(* Runs do not overlap: a run, polling loops included, finishes before    *)
(* the next event is handled.  The remote service answers a call with an   *)
(* error or with a JSON object.                                            *)
(*                                                                         *)
(* Two specifications share the session.  Spec follows tabs 2 and 3 (bulk  *)
(* job and chat), which never touch the object store.  StoreSpec follows   *)
(* tab 1 (upload and listing) against a bucket of a few objects, which     *)
(* never touches the job or chat state.                                    *)
(*                                                                         *)
(* Python values: None and dicts are wrapped as [py |-> ...] records; a    *)
(* JSON null inside a dict is the string NoneStr.  A serialized JSON       *)
(* document (the `result` field) is a sequence of tokens, parsed by        *)
(* json_loads.                                                             *)
(***************************************************************************)
EXTENDS Integers, Sequences, FiniteSets, TLC

VARIABLES
    password_correct,   \* st.session_state["password_correct"]
    login_attempt,      \* history: the credentials last submitted in the
                        \*   login form
    keys_present,       \* the session keys of lines 75-86 exist
    processing,         \* st.session_state.processing
    kickoff_id,         \* st.session_state.kickoff_id
    chat_messages,      \* st.session_state.chat_messages
    chat_id,            \* st.session_state.chat_id
    submit_flag,        \* st.session_state["_submit_clicked"]
    pc,                 \* position of the current script run
    event,              \* the widget event handled by the current run;
                        \*   "tab3" until the chat tab draws it (StartRun)
    attempts,           \* bulk auto-poll: local `attempts`
    complete,           \* bulk auto-poll: local `complete`
    i,                  \* chat poll loop: loop index `i`
    job_id,             \* chat turn: local `kickoff_id`
    input_data,         \* chat turn: kickoff payload `input_data["inputs"]`
    kickoff_response,   \* last value returned by api_request("kickoff")
    status_response,    \* last value returned by api_request("status/..")
    last_msg,           \* last message written by a handler in this run
    fault,              \* the run ended with an uncaught exception
    status_calls,       \* history: status calls issued by the current loop
    kickoff_calls,      \* history: kickoff calls issued by the current run
    nonterm_only,       \* history: every status response of the current loop
                        \*   carried a non-terminal state
    S3_URI,             \* st.secrets["S3_URI"]: the folder URI of the app
    store,              \* the objects of the bucket: key -> size
    uploaded_files,     \* the files selected in the file uploader
    put_log,            \* history: the put_object calls of the upload handler
    s3_files,           \* tab 1: local `s3_files`, the last listing
    upload_complete     \* st.session_state.upload_complete

vars == <<password_correct, login_attempt, keys_present, processing,
          kickoff_id, chat_messages, chat_id, submit_flag, pc, event,
          attempts, complete, i, job_id, input_data, kickoff_response,
          status_response, last_msg, fault, status_calls, kickoff_calls,
          nonterm_only, S3_URI, store, uploaded_files, put_log, s3_files,
          upload_complete>>

\* the state of tab 1 (Upload Documents) and of the object store
tab1_vars == <<S3_URI, store, uploaded_files, put_log, s3_files,
               upload_complete>>

(* Bounds of the model *)

\* longest transcript explored; a chat turn starts only if both of its
\* messages still fit
MaxTranscript == 4

\* most files selected for one upload
MaxFiles == 2

(* Program constants *)

max_attempts == 30        \* bulk auto-poll budget
max_retries == 120        \* chat poll budget

(* Python values *)

NoneStr == "<None>"                         \* None / JSON null as a dict value
PyNone == [py |-> "None"]
PyDict(d) == [py |-> "dict", d |-> d]
PyList == [py |-> "list"]
PyStr(s) == [py |-> "str", s |-> s]

EmptyDict == << >>

\* dict.get(k, default)
Get(d, k, default) == IF k \in DOMAIN d THEN d[k] ELSE default

\* truth value of a value returned by api_request (None or a dict)
Truthy(v) == v.py = "dict" /\ DOMAIN v.d # {}

\* truth value of a string-or-None dict entry
TruthyStr(x) == x # NoneStr /\ x # ""

(* Serialized JSON: token sequences and json.loads *)

Tok(t) == [t |-> t, v |-> ""]
S(s) == [t |-> "str", v |-> s]
LB == Tok("{")
RB == Tok("}")
LS == Tok("[")
RS == Tok("]")
CO == Tok(":")
CM == Tok(",")
NUL == Tok("null")

JSONDecodeError == [err |-> TRUE, val |-> PyNone]
Parsed(v) == [err |-> FALSE, val |-> v]

IsScalarTok(k) == k.t \in {"str", "null"}
ScalarOf(k) == IF k.t = "str" THEN k.v ELSE NoneStr

\* members of an object, starting at token n, collected into acc
RECURSIVE ParseMembers(_, _, _)
ParseMembers(toks, n, acc) ==
    IF n + 3 > Len(toks) THEN JSONDecodeError
    ELSE IF toks[n].t # "str" \/ toks[n+1] # CO \/ ~IsScalarTok(toks[n+2])
    THEN JSONDecodeError
    ELSE LET acc2 == (toks[n].v :> ScalarOf(toks[n+2])) @@ acc
         IN  IF toks[n+3] = RB
             THEN IF n + 3 = Len(toks) THEN Parsed(PyDict(acc2))
                  ELSE JSONDecodeError
             ELSE IF toks[n+3] = CM THEN ParseMembers(toks, n + 4, acc2)
             ELSE JSONDecodeError

json_loads(toks) ==
    IF Len(toks) = 0 THEN JSONDecodeError
    ELSE IF toks[1] = LB
    THEN IF Len(toks) = 2 /\ toks[2] = RB THEN Parsed(PyDict(EmptyDict))
         ELSE ParseMembers(toks, 2, EmptyDict)
    ELSE IF toks[1] = LS
    THEN IF Len(toks) = 2 /\ toks[2] = RS THEN Parsed(PyList)
         ELSE JSONDecodeError
    ELSE IF Len(toks) = 1 /\ toks[1].t = "str" THEN Parsed(PyStr(toks[1].v))
    ELSE IF Len(toks) = 1 /\ toks[1] = NUL THEN Parsed(PyNone)
    ELSE JSONDecodeError


(* The remote job API as seen through requests: a call either raises a     *)
(* RequestException (connection or HTTP error) or returns a JSON object.   *)

NetFail == [fail |-> TRUE, body |-> EmptyDict]
NetOk(body) == [fail |-> FALSE, body |-> body]

KickoffIds == {"k1"}
ConversationIds == {"c1", "c2"}
Texts == {"Hello", "More"}

KickoffOutcomes ==
    {NetFail, NetOk(EmptyDict), NetOk([detail |-> "error"])}
    \cup {NetOk([kickoff_id |-> k]) : k \in KickoffIds}

\* the kickoff responses explored for the bulk job, whose id is stored in
\* the session and later tested for truth: the same, and an id that is null
BulkKickoffOutcomes ==
    KickoffOutcomes \cup {NetOk([kickoff_id |-> NoneStr])}

\* serialized results
ResultWith(resp, cid) ==
    <<LB, S("response"), CO, S(resp), CM, S("id"), CO, S(cid), RB>>
ResultNoId(resp) == <<LB, S("response"), CO, S(resp), RB>>
ResultNullId(resp) ==
    <<LB, S("response"), CO, S(resp), CM, S("id"), CO, NUL, RB>>
ResultTruncated == <<LB, S("response"), CO>>
ResultArray == <<LS, RS>>

WellFormedResults ==
    {ResultWith("Hi there", c) : c \in ConversationIds}
    \cup {ResultNoId("Hi there"), ResultNullId("Hi there")}

\* the job states that end a poll loop (lines 488 and 508)
TerminalStates == {"SUCCESS", "FAILURE", "TIMEOUT"}

\* the status responses explored for the bulk job, whose result is not
\* read: a failed call, a running job, each terminal state
BulkStatusOutcomes ==
    {NetFail}
    \cup {NetOk([state |-> s]) : s \in {"RUNNING"} \cup TerminalStates}

\* the status responses explored for a chat job: the same, and SUCCESS with
\* each kind of result
StatusOutcomes ==
    BulkStatusOutcomes
    \cup {NetOk([state |-> "SUCCESS", result |-> r]) :
             r \in WellFormedResults \cup {ResultTruncated, ResultArray, << >>}}

\* api_request: None on a RequestException, else the decoded JSON body
api_request(net) == IF net.fail THEN PyNone ELSE PyDict(net.body)

(* Secrets and login inputs *)

SecretUser == "admin"
SecretPass == "s3cret"
Usernames == {"admin", "guest"}
Passwords == {"s3cret", "wrong"}

(* Messages written to the page: kind and argument *)

Msg(m, a) == [m |-> m, a |-> a]
NoMsg == Msg("", "")

\* the values of the login form: username and password
Credentials(u, p) == [username |-> u, password |-> p]
NoCredentials == Credentials("", "")

(* Session state *)

\* a bucket without objects
EmptyStore == << >>

\* lines 75-86: a key is initialised only if it is not in the session yet
InitSessionState(present, cur, default) == IF present THEN cur ELSE default

Init ==
    /\ password_correct = FALSE
    /\ login_attempt = NoCredentials
    /\ keys_present = FALSE
    /\ processing = FALSE
    /\ kickoff_id = NoneStr
    /\ chat_messages = << >>
    /\ chat_id = NoneStr
    /\ submit_flag = FALSE
    /\ pc = "idle"
    /\ event = "none"
    /\ attempts = 0
    /\ complete = FALSE
    /\ i = 0
    /\ job_id = NoneStr
    /\ input_data = EmptyDict
    /\ kickoff_response = PyNone
    /\ status_response = PyNone
    /\ last_msg = NoMsg
    /\ fault = FALSE
    /\ status_calls = 0
    /\ kickoff_calls = 0
    /\ nonterm_only = TRUE
    /\ S3_URI = <<"s3:", "", "bucket", "docs">>
    /\ store = EmptyStore
    /\ uploaded_files = << >>
    /\ put_log = << >>
    /\ s3_files = << >>
    /\ upload_complete = FALSE

\* the locals of a script run and the history of its calls
SetLocals(a, c, n, j, inp, kr, sr, f, sc, kc, nt) ==
    /\ attempts' = a
    /\ complete' = c
    /\ i' = n
    /\ job_id' = j
    /\ input_data' = inp
    /\ kickoff_response' = kr
    /\ status_response' = sr
    /\ fault' = f
    /\ status_calls' = sc
    /\ kickoff_calls' = kc
    /\ nonterm_only' = nt

\* a new script run starts with fresh locals
FreshRun ==
    SetLocals(0, FALSE, 0, NoneStr, EmptyDict, PyNone, PyNone, FALSE, 0, 0,
              TRUE)

\* `status_data.get('state', 'UNKNOWN')` of a truthy response
StateOf(resp) ==
    IF Truthy(resp) THEN Get(resp.d, "state", "UNKNOWN") ELSE "UNKNOWN"

(* Authentication *)

\* variant: only the username is compared
password_entered_username_only(u, p) == u = SecretUser

\* password_entered: both credentials must match
password_entered(u, p) == u = SecretUser /\ p = SecretPass

\* the login form is submitted; on success the script continues past
\* check_password, initialises the missing session keys and runs the page
\* with no widget event
Login(u, p) ==
    /\ pc = "idle"
    /\ ~password_correct
    /\ login_attempt' = Credentials(u, p)
    /\ password_correct' = password_entered(u, p)
    /\ IF password_entered(u, p)
       THEN /\ keys_present' = TRUE
            /\ processing' = InitSessionState(keys_present, processing, FALSE)
            /\ kickoff_id' = InitSessionState(keys_present, kickoff_id, NoneStr)
            /\ chat_messages' =
                   InitSessionState(keys_present, chat_messages, << >>)
            /\ chat_id' = InitSessionState(keys_present, chat_id, NoneStr)
            /\ pc' = "autopoll"
       ELSE /\ UNCHANGED <<keys_present, processing, kickoff_id,
                           chat_messages, chat_id>>
            /\ pc' = "idle"
    /\ event' = "none"
    /\ FreshRun
    /\ last_msg' = IF password_entered(u, p) THEN NoMsg
                   ELSE Msg("error", "Username or password incorrect")
    /\ UNCHANGED submit_flag
    /\ UNCHANGED tab1_vars

\* the Logout button: reset the authentication status and rerun, which
\* stops at the login form
Logout ==
    /\ pc = "idle"
    /\ password_correct
    /\ password_correct' = FALSE
    /\ pc' = "idle"
    /\ event' = "none"
    /\ FreshRun
    /\ last_msg' = NoMsg
    /\ UNCHANGED <<login_attempt, keys_present, processing, kickoff_id,
                   chat_messages, chat_id, submit_flag>>
    /\ UNCHANGED tab1_vars

(* Bulk processing (tab 2) *)

\* `kickoff_response and "kickoff_id" in kickoff_response`
HasKickoffId(resp) == Truthy(resp) /\ "kickoff_id" \in DOMAIN resp.d

\* variant: the embeddings are overridden
BulkInputsOverride == [process_files |-> TRUE, override_embeddings |-> TRUE]

\* lines 325-330: the fixed inputs of the bulk job
BulkInputs == [process_files |-> TRUE, override_embeddings |-> FALSE]

\* variant: line 341 forgotten, `processing` stays set on a failed kickoff
ProcessingStaysSet(ok) == TRUE

\* `processing` after the kickoff: set at line 320, reset at line 341 when
\* no kickoff id came back
ProcessingAfterKickoff(ok) == ok

\* variant: every terminal state counts as completion
IsCompleteOnAnyTerminal(current_state) == current_state \in TerminalStates

\* `current_state == "SUCCESS"`
IsComplete(current_state) == current_state = "SUCCESS"

\* the Process All Documents button: one kickoff with the fixed inputs
ProcessAllDocuments(net) ==
    /\ pc = "idle"
    /\ password_correct
    /\ LET resp == api_request(net)
       IN  /\ SetLocals(0, FALSE, 0, NoneStr, BulkInputs, resp, PyNone, FALSE,
                        0, 1, TRUE)
           /\ IF HasKickoffId(resp)
              THEN /\ kickoff_id' = resp.d.kickoff_id
                   /\ processing' = ProcessingAfterKickoff(TRUE)
                   /\ last_msg' = Msg("success", "kicked off")
              ELSE /\ kickoff_id' = NoneStr
                   /\ processing' = ProcessingAfterKickoff(FALSE)
                   /\ last_msg' =
                          Msg("error", "Failed to kickoff document processing")
    /\ pc' = "autopoll"
    /\ event' = "process"
    /\ UNCHANGED <<password_correct, login_attempt, keys_present,
                   chat_messages, chat_id,
                   submit_flag>>
    /\ UNCHANGED tab1_vars

\* the Refresh Status button (rendered while a kickoff id is stored): one
\* status call
RefreshStatus(net) ==
    /\ pc = "idle"
    /\ password_correct
    /\ TruthyStr(kickoff_id)
    /\ LET status_data == api_request(net)
           current_state == StateOf(status_data)
       IN  /\ SetLocals(0, FALSE, 0, NoneStr, EmptyDict, PyNone, status_data,
                        FALSE, 1, 0, TRUE)
           /\ IF Truthy(status_data)
              THEN IF IsComplete(current_state)
                   THEN /\ last_msg' = Msg("success", "DONE")
                        /\ processing' = FALSE
                   ELSE /\ last_msg' = Msg("state", current_state)
                        /\ UNCHANGED processing
              ELSE /\ last_msg' = Msg("error", "Failed to retrieve status")
                   /\ UNCHANGED processing
    /\ pc' = "autopoll"
    /\ event' = "refresh"
    /\ UNCHANGED <<password_correct, login_attempt, keys_present,
                   kickoff_id, chat_messages,
                   chat_id, submit_flag>>
    /\ UNCHANGED tab1_vars

\* a run started by a widget of the chat tab (Send, Enter in the text
\* input, Clear Chat) or by a widget without a handler.  The chat tab is
\* the last section of the script, so which of its widgets fired is drawn
\* when the run reaches it.
StartRun ==
    /\ pc = "idle"
    /\ password_correct
    /\ FreshRun
    /\ last_msg' = NoMsg
    /\ pc' = "autopoll"
    /\ event' = "tab3"
    /\ UNCHANGED <<password_correct, login_attempt, keys_present,
                   processing, kickoff_id,
                   chat_messages, chat_id, submit_flag>>
    /\ UNCHANGED tab1_vars

\* the Process Status section: the auto-poll loop is entered while a
\* kickoff id is stored and `processing` is set
AutoPoll ==
    /\ pc = "autopoll"
    /\ IF TruthyStr(kickoff_id)
       THEN IF processing
            THEN /\ pc' = "bulk_poll"
                 /\ status_calls' = 0
                 /\ status_response' = PyNone
            ELSE /\ pc' = "tab3"
                 /\ UNCHANGED <<status_calls, status_response>>
       ELSE /\ pc' = "tab3"
            /\ UNCHANGED <<status_calls, status_response>>
    /\ last_msg' =
           IF ~TruthyStr(kickoff_id)
           THEN Msg("info", "No processing has been started yet")
           ELSE IF event = "refresh" THEN last_msg  \* written after line 348
           ELSE Msg("success", "Document processing is in progress")
    /\ attempts' = 0
    /\ complete' = FALSE
    /\ nonterm_only' = TRUE
    /\ UNCHANGED <<password_correct, login_attempt, keys_present,
                   processing, kickoff_id,
                   chat_messages, chat_id, submit_flag, event, i, job_id,
                   input_data, kickoff_response, fault, kickoff_calls>>
    /\ UNCHANGED tab1_vars

\* variant: off-by-one loop condition
BulkLoopConditionInclusive(c, n) == ~c /\ n <= max_attempts

\* `while not complete and attempts < max_attempts`
BulkLoopCondition(c, n) == ~c /\ n < max_attempts

\* lines 403-405, after the loop
BulkAfterLoop(c, n, msg) ==
    IF n >= max_attempts /\ ~c
    THEN Msg("warning", "Processing is taking longer than expected")
    ELSE msg

\* one iteration of the auto-poll loop: one status call
BulkPoll(net) ==
    /\ pc = "bulk_poll"
    /\ BulkLoopCondition(complete, attempts)
    /\ LET status_data == api_request(net)
           current_state == StateOf(status_data)
       IN  /\ status_response' = status_data
           /\ status_calls' = status_calls + 1
           /\ nonterm_only' = (/\ nonterm_only
                               /\ Truthy(status_data)
                               /\ current_state \notin TerminalStates)
           /\ IF Truthy(status_data)
              THEN IF IsComplete(current_state)
                   THEN /\ complete' = TRUE
                        /\ processing' = FALSE
                        /\ last_msg' = BulkAfterLoop(TRUE, attempts,
                                                     Msg("success", "DONE"))
                        /\ pc' = "tab3"
                        /\ UNCHANGED attempts
                   ELSE /\ attempts' = attempts + 1
                        /\ last_msg' = Msg("state", current_state)
                        /\ pc' = "bulk_poll"
                        /\ UNCHANGED <<complete, processing>>
              ELSE /\ last_msg' = BulkAfterLoop(complete, attempts,
                              Msg("error", "Failed to retrieve status"))
                   /\ pc' = "tab3"
                   /\ UNCHANGED <<attempts, complete, processing>>
    /\ UNCHANGED <<password_correct, login_attempt, keys_present,
                   kickoff_id, chat_messages,
                   chat_id, submit_flag, event, i, job_id, input_data,
                   kickoff_response, fault, kickoff_calls>>
    /\ UNCHANGED tab1_vars

\* the loop condition fails: the attempt budget is used up
BulkPollExit ==
    /\ pc = "bulk_poll"
    /\ ~BulkLoopCondition(complete, attempts)
    /\ last_msg' = BulkAfterLoop(complete, attempts, last_msg)
    /\ pc' = "tab3"
    /\ UNCHANGED <<password_correct, login_attempt, keys_present,
                   processing, kickoff_id,
                   chat_messages, chat_id, submit_flag, event, attempts,
                   complete, i, job_id, input_data, kickoff_response,
                   status_response, fault, status_calls, kickoff_calls,
                   nonterm_only>>
    /\ UNCHANGED tab1_vars

(* Chat (tab 3) *)

ChatMessage(role, content) == [role |-> role, content |-> content]

\* variant: the stored conversation id is never sent
BuildInputDataWithoutId(cid, current_message) ==
    [current_message |-> current_message]

\* lines 454-468: the kickoff inputs of a chat turn
BuildInputData(cid, current_message) ==
    IF cid = NoneStr
    THEN [current_message |-> current_message]
    ELSE [current_message |-> current_message, id |-> cid]

\* variant: a conversation id is made up when the result carries none
StoreChatIdOrDefault(cur, cid) == IF TruthyStr(cid) THEN cid ELSE "local-1"

\* lines 499-500: `if chat_id: st.session_state.chat_id = chat_id`
StoreChatId(cur, cid) == IF TruthyStr(cid) THEN cid ELSE cur

\* variant: the reply is read from the wrong key
AssistantReplyWrongKey(result_data) == Get(result_data.d, "text", "")

\* line 495: `result_data.get("response", "")`
AssistantReply(result_data) == Get(result_data.d, "response", "")

\* `status_response.get("result")` is truthy
HasResult(resp) == "result" \in DOMAIN resp.d /\ Len(resp.d.result) > 0

\* variant: a job-reported TIMEOUT is not recognised
ChatBranchFailureOnly(resp, n) ==
    IF Truthy(resp) /\ StateOf(resp) = "SUCCESS" /\ HasResult(resp)
    THEN "result"
    ELSE IF Truthy(resp) /\ StateOf(resp) = "FAILURE" THEN "failed"
    ELSE IF n = max_retries - 1 THEN "timed_out"
    ELSE "wait"

\* the branch taken by one iteration of the chat poll loop (lines 488-515)
ChatBranch(resp, n) ==
    IF Truthy(resp) /\ StateOf(resp) = "SUCCESS" /\ HasResult(resp)
    THEN "result"
    ELSE IF Truthy(resp) /\ StateOf(resp) \in {"FAILURE", "TIMEOUT"}
    THEN "failed"
    ELSE IF n = max_retries - 1 THEN "timed_out"
    ELSE "wait"

\* variant: the user message is not recorded
AppendUserMessageSkipped(msgs, current_message) == msgs

\* variant: the transcript is restarted with the new message
AppendUserMessageOnly(msgs, current_message) ==
    <<ChatMessage("user", current_message)>>

\* line 451: the user message is appended to the chat history
AppendUserMessage(msgs, current_message) ==
    Append(msgs, ChatMessage("user", current_message))

\* a chat turn: Send was clicked, or Enter was pressed in a non-empty text
\* input (on_change sets the submit flag).  The user message is appended,
\* the kickoff is sent, and the poll loop is entered if it returned an id.
SendMessage(via, user_input, net) ==
    /\ pc = "tab3"
    /\ event = "tab3"
    /\ Len(chat_messages) + 2 <= MaxTranscript
    /\ LET submit_clicked == via = "button"
           flag == submit_clicked \/ user_input # "" \/ submit_flag
           resp == api_request(net)
           inputs == BuildInputData(chat_id, user_input)
       IN  /\ submit_clicked \/ (user_input # "" /\ flag)
           /\ submit_flag' = FALSE
           /\ chat_messages' = AppendUserMessage(chat_messages, user_input)
           /\ IF HasKickoffId(resp)
              THEN /\ SetLocals(0, FALSE, 0, resp.d.kickoff_id, inputs, resp,
                                PyNone, FALSE, 0, 1, TRUE)
                   /\ last_msg' = NoMsg
                   /\ pc' = "chat_poll"
              ELSE /\ SetLocals(0, FALSE, 0, NoneStr, inputs, resp, PyNone,
                                FALSE, 0, 1, TRUE)
                   /\ last_msg' =
                          IF Truthy(resp) THEN Msg("error", "Received")
                          ELSE Msg("error",
                                   "Failed to get a kickoff ID from the API")
                   /\ pc' = "rerun"
    /\ event' = "send"
    /\ UNCHANGED <<password_correct, login_attempt, keys_present,
                   processing, kickoff_id,
                   chat_id>>
    /\ UNCHANGED tab1_vars

\* one iteration of the chat poll loop: one status call
ChatPoll(net) ==
    /\ pc = "chat_poll"
    /\ LET resp == api_request(net)
           branch == ChatBranch(resp, i)
           parsed == json_loads(resp.d.result)
           result_data == parsed.val
           response_text == AssistantReply(result_data)
           cid == Get(result_data.d, "id", NoneStr)
       IN  /\ status_response' = resp
           /\ status_calls' = status_calls + 1
           /\ nonterm_only' = (/\ nonterm_only
                               /\ Truthy(resp)
                               /\ StateOf(resp) \notin TerminalStates)
           /\ IF branch = "result"
              THEN IF parsed.err
                   THEN \* except json.JSONDecodeError
                        /\ last_msg' = Msg("error", "Error parsing result JSON")
                        /\ pc' = "rerun"
                        /\ UNCHANGED <<chat_id, chat_messages, i, fault>>
                   ELSE IF result_data.py # "dict"
                   THEN \* result_data.get raises AttributeError: uncaught
                        /\ fault' = TRUE
                        /\ last_msg' = NoMsg
                        /\ pc' = "idle"
                        /\ UNCHANGED <<chat_id, chat_messages, i>>
                   ELSE /\ chat_id' = StoreChatId(chat_id, cid)
                        /\ chat_messages' = Append(chat_messages,
                               ChatMessage("assistant", response_text))
                        /\ pc' = "rerun"
                        /\ UNCHANGED <<last_msg, i, fault>>
              ELSE IF branch = "failed"
              THEN /\ last_msg' = Msg("failed_state", StateOf(resp))
                   /\ pc' = "rerun"
                   /\ UNCHANGED <<chat_id, chat_messages, i, fault>>
              ELSE IF branch = "timed_out"
              THEN /\ last_msg' = Msg("error", "Timed out waiting for response")
                   /\ pc' = "rerun"
                   /\ UNCHANGED <<chat_id, chat_messages, i, fault>>
              ELSE /\ i' = i + 1
                   /\ pc' = "chat_poll"
                   /\ UNCHANGED <<chat_id, chat_messages, last_msg, fault>>
    /\ UNCHANGED <<password_correct, login_attempt, keys_present,
                   processing, kickoff_id,
                   submit_flag, event, attempts, complete, job_id, input_data,
                   kickoff_response, kickoff_calls>>
    /\ UNCHANGED tab1_vars

\* variant: Clear Chat forgets to reset the conversation id
ClearChatKeepsId ==
    /\ pc = "tab3"
    /\ event = "tab3"
    /\ chat_messages' = << >>
    /\ FreshRun
    /\ last_msg' = NoMsg
    /\ pc' = "rerun"
    /\ event' = "clear"
    /\ UNCHANGED <<password_correct, login_attempt, keys_present,
                   processing, kickoff_id,
                   chat_id, submit_flag>>
    /\ UNCHANGED tab1_vars

\* the Clear Chat button
ClearChat ==
    /\ pc = "tab3"
    /\ event = "tab3"
    /\ chat_messages' = << >>
    /\ chat_id' = NoneStr
    /\ FreshRun
    /\ last_msg' = NoMsg
    /\ pc' = "rerun"
    /\ event' = "clear"
    /\ UNCHANGED <<password_correct, login_attempt, keys_present,
                   processing, kickoff_id,
                   submit_flag>>
    /\ UNCHANGED tab1_vars

\* no widget of the chat tab fired: the run ends
EndRun ==
    /\ pc = "tab3"
    /\ FreshRun
    /\ last_msg' = NoMsg
    /\ pc' = "idle"
    /\ event' = "none"
    /\ UNCHANGED <<password_correct, login_attempt, keys_present,
                   processing, kickoff_id,
                   chat_messages, chat_id, submit_flag>>
    /\ UNCHANGED tab1_vars

\* st.rerun() at the end of a chat turn or of Clear Chat: the script runs
\* again with no widget event
Rerun ==
    /\ pc = "rerun"
    /\ FreshRun
    /\ last_msg' = NoMsg
    /\ pc' = "autopoll"
    /\ event' = "none"
    /\ UNCHANGED <<password_correct, login_attempt, keys_present,
                   processing, kickoff_id,
                   chat_messages, chat_id, submit_flag>>
    /\ UNCHANGED tab1_vars

(* Object store (tab 1) *)

\* Strings that are taken apart are sequences of their '/'-separated
\* segments: "docs/a.txt" is <<"docs", "a.txt">>, "docs/" is <<"docs", "">>,
\* the empty string is <<"">>, "s3://bucket/docs" is
\* <<"s3:", "", "bucket", "docs">>.

EmptyStr == <<"">>

Last(q) == q[Len(q)]
Front(q) == SubSeq(q, 1, Len(q) - 1)

\* str.endswith('/')
EndsWithSlash(q) == Len(q) >= 2 /\ Last(q) = ""

\* `s3_uri.replace('s3://', '')` for a scheme at the start of the URI
StripScheme(u) ==
    IF Len(u) >= 3 /\ u[1] = "s3:" /\ u[2] = "" THEN SubSeq(u, 3, Len(u))
    ELSE u

\* parse_s3_uri: split once at the first '/'
parse_s3_uri(s3_uri) ==
    LET parts == StripScheme(s3_uri)
    IN  [bucket |-> parts[1],
         prefix |-> IF Len(parts) > 1 THEN Tail(parts) ELSE EmptyStr]

\* `if prefix and not prefix.endswith('/'): prefix += '/'`
NormalizePrefix(prefix) ==
    IF prefix # EmptyStr /\ ~EndsWithSlash(prefix) THEN Append(prefix, "")
    ELSE prefix

\* the files offered to the uploader: name and size in bytes
Files ==
    {[name |-> "a.txt", size |-> 2047], [name |-> "n.pdf", size |-> 0]}

\* the keys of the bucket in the order list_objects_v2 returns them
\* (ascending UTF-8 binary order)
KeyOrder ==
    << <<"a.txt">>, <<"docs", "">>, <<"docs", "a.txt">>, <<"docs", "n.pdf">>,
       <<"docs", "sub", "b.txt">>, <<"n.pdf">>, <<"other", "c.txt">> >>

\* the objects a bucket may hold before the session: key -> size
SeedObjects ==
    (<<"docs", "">> :> 0) @@ (<<"docs", "a.txt">> :> 500)
    @@ (<<"docs", "sub", "b.txt">> :> 1536) @@ (<<"other", "c.txt">> :> 1048576)

Restrict(f, K) == [k \in K |-> f[k]]

\* the buckets explored: empty, a lone folder marker, a folder with a file,
\* a marker and a nested file, and the same beside another folder
SeedStores ==
    {Restrict(SeedObjects, K) :
        K \in {{}, {<<"docs", "">>},
               {<<"docs", "">>, <<"docs", "a.txt">>, <<"docs", "sub", "b.txt">>},
               DOMAIN SeedObjects}}

FolderUris ==
    {<<"s3:", "", "bucket", "docs">>, <<"s3:", "", "bucket", "docs", "">>,
     <<"s3:", "", "bucket">>}

\* the service's Prefix filter: the key starts with the prefix string (a
\* prefix that is empty or ends with '/')
StartsWith(key, prefix) ==
    /\ Len(key) >= Len(prefix)
    /\ \A j \in 1..(Len(prefix) - 1) : key[j] = prefix[j]

\* line 200: skip the directory itself and directories
IsListed(key, prefix) == key # prefix /\ ~EndsWithSlash(key)

NoDecimal == 0 - 1

SizeStr(whole, tenth, unit) == [whole |-> whole, tenth |-> tenth, unit |-> unit]

\* f"{size / unit:.1f}": the quotient rounded to one decimal, ties to even
OneDecimal(size, unit, name) ==
    LET q == (10 * size) \div unit
        r == (10 * size) % unit
        t == IF 2 * r > unit \/ (2 * r = unit /\ q % 2 = 1) THEN q + 1 ELSE q
    IN  SizeStr(t \div 10, t % 10, name)

\* lines 205-210: the size formatted for display
FormatSize(file_size) ==
    IF file_size < 1024 THEN SizeStr(file_size, NoDecimal, "B")
    ELSE IF file_size < 1024 * 1024 THEN OneDecimal(file_size, 1024, "KB")
    ELSE OneDecimal(file_size, 1024 * 1024, "MB")

\* lines 201-217: the entry of one listed object
FileInfo(bucket, key, file_size) ==
    [name |-> Last(key),
     uri |-> [bucket |-> bucket, key |-> key],
     size |-> file_size,
     size_str |-> FormatSize(file_size)]

\* the keys of all pages of the listing, in order
RECURSIVE ListedKeys(_, _, _)
ListedKeys(objects, prefix, n) ==
    IF n > Len(KeyOrder) THEN << >>
    ELSE LET key == KeyOrder[n]
             rest == ListedKeys(objects, prefix, n + 1)
         IN  IF key \in DOMAIN objects /\ StartsWith(key, prefix)
                /\ IsListed(key, prefix)
             THEN <<key>> \o rest
             ELSE rest

\* list_s3_files when no call raises
list_s3_files(s3_folder_uri, objects) ==
    LET parsed == parse_s3_uri(s3_folder_uri)
        prefix == NormalizePrefix(parsed.prefix)
        keys == ListedKeys(objects, prefix, 1)
    IN  [n \in 1..Len(keys) |->
            FileInfo(parsed.bucket, keys[n], objects[keys[n]])]

\* line 235: `key = f"{prefix}{file_name}"` for a normalized prefix
ObjectKey(s3_folder_uri, file_name) ==
    Append(Front(NormalizePrefix(parse_s3_uri(s3_folder_uri).prefix)),
           file_name)

\* the selections of the file uploader, in selection order (two selected
\* files may carry the same name)
Selections == UNION {[1..n -> Files] : n \in 0..MaxFiles}

\* the file uploader changes: the script runs with no button pressed
ChooseFiles(sel) ==
    /\ pc = "idle"
    /\ password_correct
    /\ sel # uploaded_files
    /\ uploaded_files' = sel
    /\ FreshRun
    /\ last_msg' = NoMsg
    /\ pc' = "tab1"
    /\ event' = "none"
    /\ UNCHANGED <<password_correct, login_attempt, keys_present,
                   processing, kickoff_id,
                   chat_messages, chat_id, submit_flag, S3_URI, store,
                   put_log, s3_files, upload_complete>>

\* the Upload to S3 button (rendered while files are selected)
UploadToS3 ==
    /\ pc = "idle"
    /\ password_correct
    /\ uploaded_files # << >>
    /\ put_log' = << >>
    /\ FreshRun
    /\ last_msg' = NoMsg
    /\ pc' = "upload"
    /\ event' = "upload"
    /\ UNCHANGED <<password_correct, login_attempt, keys_present,
                   processing, kickoff_id,
                   chat_messages, chat_id, submit_flag, S3_URI, store,
                   uploaded_files, s3_files, upload_complete>>

\* variant: the loop is left at the first failed put
NextUploadStopsOnFailure(log, files) ==
    IF Len(log) < Len(files) /\ (log = << >> \/ log[Len(log)].ok)
    THEN Len(log) + 1
    ELSE 0

\* `for uploaded_file in uploaded_files`: the position of the next file, 0
\* when the loop is over
NextUpload(log, files) == IF Len(log) < Len(files) THEN Len(log) + 1 ELSE 0

\* one iteration of the upload loop: save_uploaded_file puts one object; a
\* put that raises is reported and yields None
SaveUploadedFile(ok) ==
    /\ pc = "upload"
    /\ NextUpload(put_log, uploaded_files) # 0
    /\ LET uploaded_file == uploaded_files[NextUpload(put_log, uploaded_files)]
           key == ObjectKey(S3_URI, uploaded_file.name)
       IN  /\ put_log' = Append(put_log, [key |-> key, ok |-> ok])
           /\ store' = IF ok THEN (key :> uploaded_file.size) @@ store
                       ELSE store
           /\ last_msg' = IF ok THEN last_msg
                          ELSE Msg("error", "Error saving file to S3")
    /\ UNCHANGED <<password_correct, login_attempt, keys_present,
                   processing, kickoff_id,
                   chat_messages, chat_id, submit_flag, pc, event, attempts,
                   complete, i, job_id, input_data, kickoff_response,
                   status_response, fault, status_calls, kickoff_calls,
                   nonterm_only, S3_URI, uploaded_files, s3_files,
                   upload_complete>>

\* lines 282-284, after the loop
UploadComplete ==
    /\ pc = "upload"
    /\ NextUpload(put_log, uploaded_files) = 0
    /\ upload_complete' = TRUE
    /\ last_msg' = Msg("success", "Files successfully uploaded to S3!")
    /\ pc' = "rerun"
    /\ UNCHANGED <<password_correct, login_attempt, keys_present,
                   processing, kickoff_id,
                   chat_messages, chat_id, submit_flag, event, attempts,
                   complete, i, job_id, input_data, kickoff_response,
                   status_response, fault, status_calls, kickoff_calls,
                   nonterm_only, S3_URI, store, uploaded_files, put_log,
                   s3_files>>

\* st.rerun() at the end of the upload handler: the script runs again with
\* no widget event and reaches tab 1
RerunAfterUpload ==
    /\ pc = "rerun"
    /\ event = "upload"
    /\ put_log' = << >>
    /\ FreshRun
    /\ last_msg' = NoMsg
    /\ pc' = "tab1"
    /\ event' = "none"
    /\ UNCHANGED <<password_correct, login_attempt, keys_present,
                   processing, kickoff_id,
                   chat_messages, chat_id, submit_flag, S3_URI, store,
                   uploaded_files, s3_files, upload_complete>>

\* Documents in S3 Bucket: the listing, empty when a call raised
ListS3Files(ok) ==
    /\ pc = "tab1"
    /\ s3_files' = IF ok THEN list_s3_files(S3_URI, store) ELSE << >>
    /\ last_msg' = IF s3_files' # << >> THEN Msg("text", "files")
                   ELSE Msg("info", "No documents found in S3 bucket.")
    /\ pc' = "autopoll"
    /\ UNCHANGED <<password_correct, login_attempt, keys_present,
                   processing, kickoff_id,
                   chat_messages, chat_id, submit_flag, event, attempts,
                   complete, i, job_id, input_data, kickoff_response,
                   status_response, fault, status_calls, kickoff_calls,
                   nonterm_only, S3_URI, store, uploaded_files, put_log,
                   upload_complete>>

Next ==
    \/ \E u \in Usernames, p \in Passwords : Login(u, p)
    \/ Logout
    \/ \E net \in BulkKickoffOutcomes : ProcessAllDocuments(net)
    \/ \E net \in BulkStatusOutcomes : RefreshStatus(net)
    \/ StartRun
    \/ AutoPoll
    \/ \E net \in BulkStatusOutcomes : BulkPoll(net)
    \/ BulkPollExit
    \/ \E via \in {"button", "enter"}, t \in Texts, net \in KickoffOutcomes :
           SendMessage(via, t, net)
    \/ \E net \in StatusOutcomes : ChatPoll(net)
    \/ ClearChat
    \/ EndRun
    \/ Rerun

Spec == Init /\ [][Next]_vars

\* A session that uses tab 1 only: the same session start, with the folder
\* URI and the bucket's objects drawn from FolderUris and SeedStores.
StoreInit ==
    /\ password_correct = FALSE
    /\ login_attempt = NoCredentials
    /\ keys_present = FALSE
    /\ processing = FALSE
    /\ kickoff_id = NoneStr
    /\ chat_messages = << >>
    /\ chat_id = NoneStr
    /\ submit_flag = FALSE
    /\ pc = "idle"
    /\ event = "none"
    /\ attempts = 0
    /\ complete = FALSE
    /\ i = 0
    /\ job_id = NoneStr
    /\ input_data = EmptyDict
    /\ kickoff_response = PyNone
    /\ status_response = PyNone
    /\ last_msg = NoMsg
    /\ fault = FALSE
    /\ status_calls = 0
    /\ kickoff_calls = 0
    /\ nonterm_only = TRUE
    /\ S3_URI \in FolderUris
    /\ store \in SeedStores
    /\ uploaded_files = << >>
    /\ put_log = << >>
    /\ s3_files = << >>
    /\ upload_complete = FALSE

StoreNext ==
    \/ \E u \in Usernames, p \in Passwords : Login(u, p)
    \/ Logout
    \/ \E sel \in Selections : ChooseFiles(sel)
    \/ UploadToS3
    \/ \E ok \in BOOLEAN : SaveUploadedFile(ok)
    \/ UploadComplete
    \/ RerunAfterUpload
    \/ \E ok \in BOOLEAN : ListS3Files(ok)
    \/ AutoPoll
    \/ EndRun

StoreSpec == StoreInit /\ [][StoreNext]_vars

(* ----------------------------------------------------------------------- *)
(* Properties                                                              *)
(* ----------------------------------------------------------------------- *)

\* a chat turn is in flight and its kickoff has been sent
ChatTurn == event = "send" /\ kickoff_calls = 1

\* the conversation id that was stored when the turn's payload was built
IdAtKickoff == Get(input_data, "id", NoneStr)

\* the response is absent (no value) or has no `kickoff_id`
LacksKickoffId(resp) ==
    resp.py = "None" \/ (resp.py = "dict" /\ "kickoff_id" \notin DOMAIN resp.d)

\* the last status response is a dict carrying this job state
LastStatusIs(st) ==
    /\ status_response.py = "dict"
    /\ "state" \in DOMAIN status_response.d
    /\ status_response.d.state = st

\* the last status response is SUCCESS with a well-formed result
LastStatusWellFormed ==
    /\ LastStatusIs("SUCCESS")
    /\ "result" \in DOMAIN status_response.d
    /\ status_response.d.result \in WellFormedResults

LastMessage == chat_messages[Len(chat_messages)]

\* C1: the conversation id is sticky.  While a chat turn polls, its kickoff
\* payload carries `id` equal to the stored conversation id whenever one is
\* stored; and a stored conversation id goes back to none only by Clear Chat.
C1_StickyConversationId ==
    /\ [](ChatTurn /\ pc = "chat_poll" /\ chat_id # NoneStr
            => "id" \in DOMAIN input_data /\ input_data.id = chat_id)
    /\ [][chat_id # NoneStr /\ chat_id' = NoneStr
            => pc = "tab3" /\ event' = "clear"]_vars

\* C1 witness: a later turn is polling with the stored id "c2" in its payload
C1_Witness ==
    /\ ChatTurn /\ pc = "chat_poll"
    /\ Len(chat_messages) = 3
    /\ chat_id = "c2"
    /\ input_data = [current_message |-> "More", id |-> "c2"]

\* C2: after Clear Chat the transcript is empty and the conversation id is
\* none, and a turn that starts from an empty transcript (the first ever, or
\* the first after Clear Chat) sends only `current_message`.
C2_ClearChatResets ==
    /\ (pc = "rerun" /\ event = "clear"
           => chat_messages = << >> /\ chat_id = NoneStr)
    /\ (ChatTurn /\ Len(chat_messages) = 1
           => input_data = [current_message |-> chat_messages[1].content])

\* C2 witness: Clear Chat has just run while a bulk job id is stored
C2_Witness ==
    /\ pc = "rerun" /\ event = "clear"
    /\ chat_messages = << >> /\ chat_id = NoneStr
    /\ kickoff_id # NoneStr

\* C3: a kickoff whose response is absent or lacks `kickoff_id` yields no job
\* id and no status call in that action; on the bulk path the session ends
\* with kickoff_id none and processing false.
C3_SubmitFailure ==
    kickoff_calls = 1 /\ LacksKickoffId(kickoff_response)
        => /\ job_id = NoneStr
           /\ status_calls = 0
           /\ pc \notin {"bulk_poll", "chat_poll"}
           /\ (event = "process" => kickoff_id = NoneStr /\ ~processing)

\* C3 witness: a bulk kickoff answered by an object without `kickoff_id`
C3_Witness ==
    /\ event = "process" /\ pc = "tab3"
    /\ kickoff_response = PyDict([detail |-> "error"])
    /\ kickoff_id = NoneStr /\ ~processing

\* C4: in a chat turn, a SUCCESS response with a well-formed result ends the
\* polling at that response (as many status calls as loop positions used),
\* and the assistant reply appended is the `response` of that result.
C4_SuccessStopsPolling ==
    ChatTurn /\ LastStatusWellFormed
        => /\ pc = "rerun"
           /\ status_calls = i + 1
           /\ LastMessage = ChatMessage("assistant",
                  json_loads(status_response.d.result).val.d.response)

\* C4 witness: SUCCESS arrives as the sixth status response of a turn
C4_Witness ==
    /\ ChatTurn /\ LastStatusWellFormed
    /\ pc = "rerun" /\ status_calls = 6
    /\ LastMessage = ChatMessage("assistant", "Hi there")

\* C5: in a chat turn, a FAILURE or TIMEOUT response ends the polling at that
\* attempt, an error naming the state is reported, no assistant message is
\* appended and the conversation id is the one the turn started with.
C5_JobFailureStopsPolling ==
    ChatTurn /\ (LastStatusIs("FAILURE") \/ LastStatusIs("TIMEOUT"))
        => /\ pc = "rerun"
           /\ status_calls = i + 1
           /\ last_msg = Msg("failed_state", status_response.d.state)
           /\ LastMessage.role = "user"
           /\ chat_id = IdAtKickoff

\* C5 witness: TIMEOUT is reported at the third attempt of a turn that
\* started with a stored conversation id
C5_Witness ==
    /\ ChatTurn /\ LastStatusIs("TIMEOUT")
    /\ pc = "rerun" /\ status_calls = 3
    /\ chat_id = "c1"

PollTimeoutChat == Msg("error", "Timed out waiting for response")
PollTimeoutBulk == Msg("warning", "Processing is taking longer than expected")
JobTimeoutChat == Msg("failed_state", "TIMEOUT")
JobTimeoutBulk == Msg("state", "TIMEOUT")

\* C6: a polling loop that only ever receives non-terminal states makes
\* exactly its budget of status calls (120 chat, 30 bulk) and then reports a
\* poll timeout, which is not the report of a job TIMEOUT; no assistant
\* message is appended and `processing` stays set.
C6_PollTimeout ==
    /\ (ChatTurn /\ pc = "chat_poll" => status_calls < max_retries)
    /\ (ChatTurn /\ pc = "rerun" /\ nonterm_only /\ status_calls > 0
           => /\ status_calls = max_retries
              /\ last_msg = PollTimeoutChat
              /\ last_msg # JobTimeoutChat
              /\ LastMessage.role = "user")
    /\ (pc = "bulk_poll" => status_calls <= max_attempts)
    /\ (pc = "tab3" /\ nonterm_only /\ status_calls > 0 /\ attempts > 0
           => /\ status_calls = max_attempts
              /\ last_msg = PollTimeoutBulk
              /\ last_msg # JobTimeoutBulk
              /\ processing)

\* C6 witness: a chat turn ends after 120 non-terminal status responses
C6_Witness ==
    /\ ChatTurn /\ pc = "rerun" /\ nonterm_only
    /\ status_calls = max_retries
    /\ last_msg = PollTimeoutChat

\* C7: in the bulk auto-poll loop `processing` is set at every point of the
\* loop; when SUCCESS follows k other responses (k < 30) the loop has made
\* exactly k + 1 status calls and only then is `processing` false.
C7_BulkSuccess ==
    /\ (pc = "bulk_poll" => processing /\ status_calls = attempts)
    /\ (pc = "tab3" /\ complete
           => /\ LastStatusIs("SUCCESS")
              /\ attempts < max_attempts
              /\ status_calls = attempts + 1
              /\ ~processing)

\* C7 witness: five RUNNING responses, then SUCCESS at the sixth call
C7_Witness ==
    /\ pc = "tab3" /\ complete
    /\ attempts = 5 /\ status_calls = 6
    /\ ~processing

\* C8: the stored conversation id changes only to none or to the `id` of
\* the result of the SUCCESS status response just received.
C8_NoFabricatedId ==
    [][chat_id' # chat_id
          => \/ chat_id' = NoneStr
             \/ /\ LastStatusIs("SUCCESS")'
                /\ "result" \in DOMAIN status_response'.d
                /\ ~json_loads(status_response'.d.result).err
                /\ json_loads(status_response'.d.result).val.py = "dict"
                /\ Get(json_loads(status_response'.d.result).val.d, "id",
                       NoneStr) = chat_id']_vars

\* C8 witness: a turn that started with id "c1" has stored "c2" from its
\* result
C8_Witness ==
    /\ ChatTurn /\ pc = "rerun" /\ LastStatusWellFormed
    /\ IdAtKickoff = "c1" /\ chat_id = "c2"

\* C9: no chat turn or bulk action ends in an uncaught fault; each ends with
\* a user-visible message (an error, a status, or the assistant reply).
C9_NoUncaughtFault ==
    /\ ~fault
    /\ (ChatTurn /\ pc = "rerun"
           => last_msg # NoMsg \/ LastMessage.role = "assistant")
    /\ (event \in {"process", "refresh"} /\ pc = "tab3" => last_msg # NoMsg)

\* C10: a successful login after a logout leaves the session at its initial
\* defaults.
C10_ReauthenticationResets ==
    [][~password_correct /\ keys_present /\ password_correct'
          => /\ kickoff_id' = NoneStr
             /\ ~processing'
             /\ chat_messages' = << >>
             /\ chat_id' = NoneStr]_vars

(* Properties of tab 1, checked under StoreSpec *)

DocsUri == <<"s3:", "", "bucket", "docs">>

\* the store of the scenario: docs/a.txt (500 bytes), the marker docs/ and
\* docs/sub/b.txt
ScenarioStore ==
    Restrict(SeedObjects,
             {<<"docs", "">>, <<"docs", "a.txt">>, <<"docs", "sub", "b.txt">>})

\* the folder key a folder URI stands for
FolderKey(uri) ==
    IF uri = <<"s3:", "", "bucket">> THEN EmptyStr ELSE <<"docs", "">>

\* the keys of the bucket under the folder, without the folder's own key and
\* without directory markers (keys ending in '/')
FilesUnder(uri) ==
    {k \in DOMAIN store :
        /\ Len(k) >= Len(FolderKey(uri))
        /\ SubSeq(k, 1, Len(FolderKey(uri)) - 1) = Front(FolderKey(uri))
        /\ k # FolderKey(uri)
        /\ k[Len(k)] # ""}

\* a listing that did not raise has just been produced (a listing that
\* raised is empty)
Listed == pc = "autopoll" /\ s3_files # << >>

\* the listing names exactly the files under the folder
ListingIsExact ==
    Listed => {s3_files[n].uri.key : n \in DOMAIN s3_files} = FilesUnder(S3_URI)

\* C11: a listing returns exactly the objects under the folder that are
\* neither the folder's key nor directory markers; and for the store holding
\* docs/a.txt (500 bytes), docs/ and docs/sub/b.txt, listing s3://bucket/docs
\* returns only a.txt, displayed as 500 B.
C11_ListingOfFolder ==
    /\ ListingIsExact
    /\ (Listed /\ S3_URI = DocsUri /\ store = ScenarioStore
           => /\ Len(s3_files) = 1
              /\ s3_files[1].name = "a.txt"
              /\ s3_files[1].size_str = SizeStr(500, NoDecimal, "B"))

\* the upload handler is running or has just finished
Uploading == event = "upload" /\ pc \in {"upload", "rerun"}

\* C12: in a multi-file upload the puts follow the selection order, one per
\* file whatever the outcome of the earlier puts, and the handler ends with
\* a put attempted for every selected file and without a fault.
C12_IndependentUploads ==
    /\ (Uploading
           => /\ Len(put_log) <= Len(uploaded_files)
              /\ \A k \in DOMAIN put_log :
                     Last(put_log[k].key) = uploaded_files[k].name)
    /\ (Uploading /\ pc = "rerun"
           => /\ Len(put_log) = Len(uploaded_files)
              /\ upload_complete
              /\ ~fault)

\* C12 witness: the first put of two failed, the second was made and stored
C12_Witness ==
    /\ Uploading /\ pc = "rerun"
    /\ Len(put_log) = 2
    /\ ~put_log[1].ok /\ put_log[2].ok
    /\ put_log[1].key # put_log[2].key
    /\ put_log[2].key \in DOMAIN store

(* Properties of the polling loops, checked under Spec *)

\* C13: in the chat poll loop and in the bulk auto-poll loop a failed status
\* call (api_request returns None) ends the polling: a loop that is still
\* polling has not just received a failed call.
C13_FailedStatusCallAborts ==
    pc \in {"chat_poll", "bulk_poll"} /\ status_calls > 0
        => status_response.py # "None"

\* C14: in the bulk auto-poll loop a FAILURE or TIMEOUT response ends the
\* polling at that response: a loop that is still polling has not just
\* received one.
C14_BulkTerminalStates ==
    pc = "bulk_poll" /\ status_calls > 0
        => ~(LastStatusIs("FAILURE") \/ LastStatusIs("TIMEOUT"))

\* C15: a run that handles Refresh Status makes exactly one status call and
\* enters no polling loop.
C15_RefreshIsOneShot ==
    event = "refresh" => pc # "bulk_poll" /\ status_calls = 1

(* Properties of the transcript, checked under Spec *)

\* the message the user sent in the current turn
SentMessage == [role |-> "user", content |-> input_data.current_message]

\* C16: throughout a chat turn the user's message is in the transcript, last
\* or followed only by the assistant reply, whatever the kickoff and status
\* outcomes; and the transcript changes only by Clear Chat emptying it or by
\* one message being appended at its end.
C16_UserMessageKept ==
    /\ [](ChatTurn
            => \/ /\ Len(chat_messages) >= 1
                  /\ chat_messages[Len(chat_messages)] = SentMessage
               \/ /\ Len(chat_messages) >= 2
                  /\ chat_messages[Len(chat_messages) - 1] = SentMessage
                  /\ chat_messages[Len(chat_messages)].role = "assistant")
    /\ [][chat_messages' # chat_messages
            => \/ event' = "clear" /\ chat_messages' = << >>
               \/ /\ Len(chat_messages') = Len(chat_messages) + 1
                  /\ SubSeq(chat_messages', 1, Len(chat_messages))
                         = chat_messages]_vars

\* C16 witness: the second turn of a conversation failed at its kickoff and
\* its user message is still the last of three messages
C16_Witness ==
    /\ ChatTurn /\ pc = "rerun"
    /\ LacksKickoffId(kickoff_response)
    /\ Len(chat_messages) = 3
    /\ chat_messages[2].role = "assistant"
    /\ chat_messages[3] = ChatMessage("user", "More")

\* the last status response is SUCCESS and its result is absent, empty or
\* not parseable
LastStatusWithoutResult ==
    /\ LastStatusIs("SUCCESS")
    /\ \/ "result" \notin DOMAIN status_response.d
       \/ Len(status_response.d.result) = 0
       \/ json_loads(status_response.d.result).err

\* C17: in a chat turn a SUCCESS response whose result is absent, empty or
\* not parseable fails the turn: the polling ends with an error message, no
\* assistant message is appended and the conversation id is the one the turn
\* started with.
C17_SuccessWithoutResultFails ==
    ChatTurn /\ LastStatusWithoutResult
        => /\ pc = "rerun"
           /\ last_msg.m = "error"
           /\ LastMessage.role = "user"
           /\ chat_id = IdAtKickoff

(* Properties of the bulk job, checked under Spec *)

\* C18: a run that starts bulk processing sends exactly one kickoff, with
\* the inputs {process_files: true, override_embeddings: false}; when the
\* handler is done the response's kickoff_id is stored and `processing` is
\* set if the response contains one, and otherwise no id is stored and
\* `processing` is not set; the stored id does not change in the rest of
\* the run.
C18_BulkKickoff ==
    event = "process"
        => /\ kickoff_calls = 1
           /\ input_data = [process_files |-> TRUE,
                            override_embeddings |-> FALSE]
           /\ IF kickoff_response.py = "dict"
                 /\ "kickoff_id" \in DOMAIN kickoff_response.d
              THEN /\ kickoff_id = kickoff_response.d.kickoff_id
                   /\ (pc = "autopoll" => processing)
              ELSE kickoff_id = NoneStr /\ ~processing

\* C18 witness: the kickoff returned "k1", which is stored, and the handler
\* has just finished with `processing` set
C18_Witness ==
    /\ event = "process" /\ pc = "autopoll"
    /\ kickoff_calls = 1
    /\ kickoff_response = PyDict([kickoff_id |-> "k1"])
    /\ kickoff_id = "k1" /\ processing

\* C19: `processing` goes from set to clear only in a step whose status call
\* returned SUCCESS (auto-poll loop or Refresh Status) or whose bulk kickoff
\* returned no kickoff id; an auto-poll loop that ends without SUCCESS (30
\* attempts used, a failed status call) leaves it set; and a run that
\* reaches the status section with a stored kickoff id and `processing` set
\* enters the auto-poll loop.
C19_ProcessingClearedOnlyOnSuccess ==
    /\ [][processing /\ ~processing'
            => \/ /\ LastStatusIs("SUCCESS")'
                  /\ \/ pc = "bulk_poll" /\ status_calls' = status_calls + 1
                     \/ pc = "idle" /\ event' = "refresh"
               \/ /\ pc = "idle" /\ event' = "process"
                  /\ kickoff_calls' = 1
                  /\ LacksKickoffId(kickoff_response')]_vars
    /\ [][pc = "bulk_poll" /\ pc' # "bulk_poll" /\ ~complete'
            => processing' /\ kickoff_id' = kickoff_id]_vars
    /\ [][pc = "autopoll" /\ processing /\ kickoff_id # NoneStr
            => pc' = "bulk_poll"]_vars

\* C19 witness: a run without a handler is in the auto-poll loop again,
\* after an earlier run left `processing` set, and has received TIMEOUT
C19_Witness ==
    /\ pc = "bulk_poll" /\ event = "tab3"
    /\ processing /\ kickoff_id = "k1"
    /\ status_calls = 2
    /\ LastStatusIs("TIMEOUT")

(* Properties of the authentication gate, checked under Spec *)

\* C20: while the session is not authenticated no script run is under way
\* and no kickoff, status or put call has been made; a step that ends
\* unauthenticated changes neither the bulk or chat state nor the object
\* store; and an unauthenticated session becomes authenticated only by a
\* login with the configured username and password.
C20_NothingUnlessAuthenticated ==
    /\ [](~password_correct
            => /\ pc = "idle"
               /\ kickoff_calls = 0 /\ status_calls = 0
               /\ put_log = << >>)
    /\ [][~password_correct'
            => UNCHANGED <<processing, kickoff_id, chat_messages, chat_id,
                           store, s3_files, upload_complete>>]_vars
    /\ [][~password_correct /\ password_correct'
            => login_attempt' = Credentials(SecretUser, SecretPass)]_vars

\* C20 witness: after a bulk job was started and the user logged out, a
\* login with a wrong password has left the session at the login form with
\* its state untouched
C20_Witness ==
    /\ ~password_correct /\ keys_present
    /\ pc = "idle"
    /\ login_attempt = Credentials(SecretUser, "wrong")
    /\ kickoff_id = "k1" /\ processing
    /\ Len(chat_messages) = 2

\* every assistant message directly follows a user message
WellFormedTranscript ==
    \A k \in DOMAIN chat_messages :
        /\ chat_messages[k].role \in {"user", "assistant"}
        /\ chat_messages[k].role = "assistant"
               => k > 1 /\ chat_messages[k - 1].role = "user"

\* C21: the transcript is well-formed in every state: every assistant
\* message directly follows a user message (so no two assistant messages are
\* adjacent); the step that starts a chat turn appends exactly one user
\* message, the poll loop appends at most one assistant message and ends
\* with it, and nothing is appended in the rest of the turn.
C21_WellFormedTranscript ==
    /\ []WellFormedTranscript
    /\ [][event # "send" /\ event' = "send"
            => /\ Len(chat_messages') = Len(chat_messages) + 1
               /\ SubSeq(chat_messages', 1, Len(chat_messages)) = chat_messages
               /\ chat_messages'[Len(chat_messages')].role = "user"]_vars
    /\ [][pc = "chat_poll" /\ chat_messages' # chat_messages
            => /\ Len(chat_messages') = Len(chat_messages) + 1
               /\ chat_messages'[Len(chat_messages')].role = "assistant"
               /\ pc' # "chat_poll"]_vars
    /\ [][event = "send" /\ pc # "chat_poll"
            => chat_messages' = chat_messages]_vars

\* C21 witness: a turn that got no reply, then a turn that has just ended
\* with its assistant message
C21_Witness ==
    /\ ChatTurn /\ pc = "rerun"
    /\ Len(chat_messages) = 3
    /\ chat_messages[1].role = "user"
    /\ chat_messages[2].role = "user"
    /\ chat_messages[3].role = "assistant"

(* Properties of the bulk session state, checked under Spec *)

\* C22: when a user action is over, `processing` set implies a stored
\* kickoff id; a bulk start whose kickoff returned no id leaves kickoff_id
\* none and `processing` clear; and no step of the chat tab (chat turn,
\* Clear Chat, their rerun) changes kickoff_id or `processing`.
C22_ProcessingImpliesKickoffId ==
    /\ [](pc = "idle" /\ processing => kickoff_id # NoneStr)
    /\ [](event = "process" /\ LacksKickoffId(kickoff_response)
            => kickoff_id = NoneStr /\ ~processing)
    /\ [][(pc = "tab3" \/ pc = "chat_poll" \/ pc = "rerun")
            => UNCHANGED <<kickoff_id, processing>>]_vars

====
